---- MODULE Spec2Model ----
\* A model of the local-ollama-gui gateway (src/main.py): the in-memory
\* conversation store, the four upstream helpers of the Ollama client and the
\* request handlers built on them.
\*
\* Scheduling. Every handler is an `async def` coroutine whose body holds no
\* `await`: the upstream calls go through the blocking `requests` library.
\* uvicorn runs them on one event loop (src/main.py:259-262), so a handler body
\* runs from its first line to its return or raise without any other handler
\* running in between, also while it waits for the model runner. A handler is
\* one action, except add_message, which changes the store on both sides of
\* its upstream call: it is one action up to the call and one from the answer
\* on, and `waiting` holds the request in between.
EXTENDS Integers, Sequences, FiniteSets, TLC

VARIABLES
    conversations,  \* src/main.py:63  conv_id -> Conversation [id, messages]
    origin,         \* history: conv_id -> for each stored message, the rid of the request that appended it
    inflight,       \* requests received whose handler has not run yet
    waiting,        \* requests whose handler is inside its upstream call
    files,          \* names of the temp files in the working directory
    nextRid,        \* number of requests received so far, plus one
    last            \* the request handled most recently: its response and the upstream calls it made

vars == <<conversations, origin, inflight, waiting, files, nextRid, last>>

-----------------------------------------------------------------------------
\* Bounds and input domains

MaxRequests == 3

MaxClientRequests == 2

MaxMixedRequests == 3

ConvIds == {"abc", "xyz"}

Prompts == {"hi", "yo"}

-----------------------------------------------------------------------------
\* JSON values, as response.json() hands them to Python

JStr(s) == [t |-> "str", s |-> s]

JNull == [t |-> "null"]

JList(l) == [t |-> "list", l |-> l]

JObj(f) == [t |-> "obj", f |-> f]

NotJson == [t |-> "invalid"]

\* dict key order of the bodies used here
FieldOrder == <<"response", "message", "content", "models", "error">>

RECURSIVE JoinWith(_, _)
JoinWith(parts, sep) ==
    IF parts = <<>> THEN ""
    ELSE IF Len(parts) = 1 THEN parts[1]
    ELSE parts[1] \o sep \o JoinWith(Tail(parts), sep)

\* str(resp_json): Python's repr of the parsed value
RECURSIVE PyRepr(_)
PyRepr(j) ==
    CASE j.t = "str"  -> "'" \o j.s \o "'"
      [] j.t = "null" -> "None"
      [] j.t = "list" -> "[" \o JoinWith([i \in 1..Len(j.l) |-> PyRepr(j.l[i])], ", ") \o "]"
      [] j.t = "obj"  ->
            LET keys == SelectSeq(FieldOrder, LAMBDA k : k \in DOMAIN j.f)
            IN  "{" \o JoinWith([i \in 1..Len(keys) |->
                        "'" \o keys[i] \o "': " \o PyRepr(j.f[keys[i]])], ", ") \o "}"

\* `key in v`: dict membership, list membership, substring test on a str
\* (no string of the model properly contains a key, so substring is equality);
\* any other operand raises TypeError.
PyInRaises(v) == v.t \notin {"obj", "list", "str"}

PyIn(key, v) ==
    CASE v.t = "obj"  -> key \in DOMAIN v.f
      [] v.t = "list" -> \E i \in 1..Len(v.l) : v.l[i] = JStr(key)
      [] v.t = "str"  -> v.s = key
      [] OTHER        -> FALSE

\* v[key] with a str key: only a dict holding the key answers
PyGetItemRaises(v, key) == v.t # "obj" \/ key \notin DOMAIN v.f

-----------------------------------------------------------------------------
\* What the model runner can answer to one HTTP call

Body(text, json) == [text |-> text, json |-> json]

NoBody == Body("", NotJson)

BodyResponse == Body("{response:hello}", JObj("response" :> JStr("hello")))

BodyMessage == Body("{message:{content:hey}}",
                    JObj("message" :> JObj("content" :> JStr("hey"))))

BodyBoth == Body("{response:hello,message:{content:hey}}",
                 JObj(("response" :> JStr("hello")) @@
                      ("message" :> JObj("content" :> JStr("hey")))))

BodyEmpty == Body("{}", JObj(<<>>))

BodyMsgNoContent == Body("{message:{}}", JObj("message" :> JObj(<<>>)))

BodyMsgNull == Body("{message:null}", JObj("message" :> JNull))

BodyList == Body("[]", JList(<<>>))

BodyModels == Body("{models:[llama3]}", JObj("models" :> JList(<<JStr("llama3")>>)))

BodyError == Body("{error:model not found}", JObj("error" :> JStr("model not found")))

BodyText == Body("upstream unavailable", NotJson)

Response(status, body) == [exc |-> "none", status_code |-> status, body |-> body]

Failure(exc) == [exc |-> exc, status_code |-> 0, body |-> NoBody]

NoAnswer == Failure("unused")

OkBodies == {BodyResponse, BodyMessage, BodyBoth, BodyEmpty, BodyMsgNoContent,
             BodyMsgNull, BodyList, BodyModels, BodyText}

ErrorBodies == {BodyError, BodyText}

Answers ==
    {Failure("ConnectionError"), Failure("Timeout")}
    \cup {Response(200, b) : b \in OkBodies}
    \cup {Response(s, b) : s \in {400, 404, 500}, b \in ErrorBodies}
    \cup {Response(304, b) : b \in {BodyResponse, NoBody}}

\* the answers drawn where every endpoint runs together: both transport
\* failures, a success, the 400 that triggers the fallback, a server error
MixedAnswers ==
    {Failure("ConnectionError"), Failure("Timeout"), Response(200, BodyResponse),
     Response(400, BodyError), Response(500, BodyText)}

-----------------------------------------------------------------------------
\* The requests library, as far as the helpers use it

GenerateUrl == "http://localhost:11434/api/generate"

ChatUrl == "http://localhost:11434/api/chat"

TagsUrl == "http://localhost:11434/api/tags"

PullUrl == "http://localhost:11434/api/pull"

Call(url, answer) == [url |-> url, answer |-> answer]

\* Response.raise_for_status(): TRUE when it raises HTTPError
raise_for_status_omitted(response) == FALSE

raise_for_status(response) ==
    400 <= response.status_code /\ response.status_code < 600

\* bool(response) is Response.ok: False exactly when raise_for_status() raises
ResponseBool(response) == ~raise_for_status(response)

Reason(status) ==
    CASE status = 400 -> "Bad Request"
      [] status = 404 -> "Not Found"
      [] status = 500 -> "Internal Server Error"
      [] OTHER        -> ""

Exception(type, has_response, response, msg) ==
    [type |-> type, has_response |-> has_response, response |-> response, msg |-> msg]

\* the HTTPError raise_for_status() raises; it carries the response
HTTPError(response, url) ==
    Exception("HTTPError", TRUE, response,
              ToString(response.status_code)
              \o (IF response.status_code < 500 THEN " Client Error: " ELSE " Server Error: ")
              \o Reason(response.status_code) \o " for url: " \o url)

\* requests.post / requests.get raising before any response exists
TransportError(answer) ==
    Exception(answer.exc, FALSE, NoAnswer,
              IF answer.exc = "Timeout" THEN "Read timed out" ELSE "Connection refused")

\* response.json() on a body that is not JSON (a RequestException since requests 2.27)
JSONDecodeError ==
    Exception("JSONDecodeError", FALSE, NoAnswer, "Expecting value: line 1 column 1 (char 0)")

\* err_text = e.response.text if e.response else str(e)
ErrText(e) ==
    IF e.has_response /\ ResponseBool(e.response) THEN e.response.body.text ELSE e.msg

-----------------------------------------------------------------------------
\* How a helper or a handler ends

NoValue == JNull

Return(value) ==
    [kind |-> "return", value |-> value, status_code |-> 200, detail |-> ""]

HTTPException(status_code, detail) ==
    [kind |-> "HTTPException", value |-> NoValue, status_code |-> status_code, detail |-> detail]

\* an exception no handler catches: the server answers 500 Internal Server Error
Uncaught(type) ==
    [kind |-> "uncaught", value |-> NoValue, status_code |-> 500, detail |-> type]

Ended(result, calls) == [result |-> result, calls |-> calls]

-----------------------------------------------------------------------------
\* call_ollama_generate

GenerateErrorUnlessTimeout(e) ==
    IF e.type = "Timeout" THEN Return(JStr(""))
    ELSE HTTPException(500, "Error communicating with Ollama: " \o ErrText(e))

GenerateError(e) ==
    HTTPException(500, "Error communicating with Ollama: " \o ErrText(e))

call_ollama_generate(answer) ==
    LET calls == <<Call(GenerateUrl, answer)>>
        resp_json == answer.body.json
    IN  IF answer.exc # "none" THEN Ended(GenerateError(TransportError(answer)), calls)
        ELSE IF raise_for_status(answer) THEN Ended(GenerateError(HTTPError(answer, GenerateUrl)), calls)
        ELSE IF resp_json = NotJson THEN Ended(GenerateError(JSONDecodeError), calls)
        ELSE IF resp_json.t # "obj" THEN Ended(Uncaught("AttributeError"), calls)
        ELSE IF "response" \in DOMAIN resp_json.f
             THEN Ended(Return(resp_json.f["response"]), calls)
             ELSE Ended(Return(JStr("")), calls)

-----------------------------------------------------------------------------
\* call_ollama_multimodal

MultimodalError(e) ==
    HTTPException(500, "Error communicating with Ollama: " \o ErrText(e))

InternalError(type) == HTTPException(500, "Internal error: " \o type)

\* the fallback test on the first response
NeedsFallbackOnAnyError(response) == response.status_code >= 400

NeedsFallback(response) == response.status_code = 400

\* the response the rest of the helper works on
FinalResponseIgnoringChat(fallback, first, second) == first

FinalResponse(fallback, first, second) == IF fallback THEN second ELSE first

\* the extraction at the end of the helper
ExtractText(resp_json) ==
    IF PyInRaises(resp_json) THEN InternalError("TypeError")
    ELSE IF PyIn("response", resp_json) THEN
        IF PyGetItemRaises(resp_json, "response") THEN InternalError("TypeError")
        ELSE Return(resp_json.f["response"])
    ELSE IF PyIn("message", resp_json) THEN
        IF PyGetItemRaises(resp_json, "message") THEN InternalError("TypeError")
        ELSE LET message == resp_json.f["message"]
             IN  IF PyInRaises(message) THEN InternalError("TypeError")
                 ELSE IF PyIn("content", message) THEN
                     IF PyGetItemRaises(message, "content") THEN InternalError("TypeError")
                     ELSE Return(message.f["content"])
                 ELSE Return(JStr(PyRepr(resp_json)))
    ELSE Return(JStr(PyRepr(resp_json)))

call_ollama_multimodal(readOk, first, second) ==
    IF ~readOk THEN Ended(InternalError("OSError"), <<>>)
    ELSE IF first.exc # "none"
         THEN Ended(MultimodalError(TransportError(first)), <<Call(GenerateUrl, first)>>)
    ELSE
        LET fallback == NeedsFallback(first)
            calls == IF fallback
                     THEN <<Call(GenerateUrl, first), Call(ChatUrl, second)>>
                     ELSE <<Call(GenerateUrl, first)>>
            url == IF fallback THEN ChatUrl ELSE GenerateUrl
            response == FinalResponse(fallback, first, second)
        IN  IF fallback /\ second.exc # "none"
                 THEN Ended(MultimodalError(TransportError(second)), calls)
            ELSE IF raise_for_status(response)
                 THEN Ended(MultimodalError(HTTPError(response, url)), calls)
            ELSE IF response.body.json = NotJson
                 THEN Ended(MultimodalError(JSONDecodeError), calls)
            ELSE Ended(ExtractText(response.body.json), calls)

-----------------------------------------------------------------------------
\* Requests and responses

Request(rid, op, conv_id, prompt) ==
    [rid |-> rid, op |-> op, conv_id |-> conv_id, prompt |-> prompt]

\* what a client can send to the conversation endpoints
StoreShapes ==
    {<<"start_conversation", c, "-">> : c \in ConvIds}
    \cup {<<"get_conversation", c, "-">> : c \in ConvIds}
    \cup {<<"add_message", c, p>> : c \in ConvIds, p \in Prompts}

\* what a client can send to the generation and model endpoints
ClientShapes ==
    {<<"generate_text", "-", "hi">>, <<"generate_multimodal", "-", "hi">>,
     <<"list_models", "-", "-">>, <<"download_model", "-", "-">>}

NoRequest == Request(0, "none", "-", "-")

\* the HTTP response of a handler, with the upstream calls the handler made
\* and the warnings it logged
Reply(req, status_code, kind, value, detail, messages, calls) ==
    [req |-> req, status_code |-> status_code, kind |-> kind, value |-> value,
     detail |-> detail, messages |-> messages, calls |-> calls, log |-> <<>>]

\* a handler that ended as `result` says: a return answers with the route's
\* status_code, an HTTPException with its own, an uncaught exception with 500
ReplyOf(req, route_status, result, calls) ==
    Reply(req,
          IF result.kind = "return" THEN route_status ELSE result.status_code,
          result.kind, result.value, result.detail, <<>>, calls)

Message(role, content) == [role |-> role, content |-> content]

ConversationWithOwnId(id, messages) == [id |-> "generated", messages |-> messages]

Conversation(id, messages) == [id |-> id, messages |-> messages]

Init ==
    /\ conversations = <<>>
    /\ origin = <<>>
    /\ inflight = {}
    /\ waiting = {}
    /\ files = {}
    /\ nextRid = 1
    /\ last = Reply(NoRequest, 0, "none", NoValue, "", <<>>, <<>>)

\* a request arrives; its handler runs later, in any order with the others
Arrive(shapes, max) ==
    /\ nextRid <= max
    /\ \E shape \in shapes :
          inflight' = inflight \cup {Request(nextRid, shape[1], shape[2], shape[3])}
    /\ nextRid' = nextRid + 1
    /\ UNCHANGED <<conversations, origin, waiting, files, last>>

ReceiveStore == Arrive(StoreShapes, MaxRequests)

ReceiveClient == Arrive(ClientShapes, MaxClientRequests)

\* what a client sends where every endpoint runs together
MixedShapes ==
    {<<"start_conversation", "abc", "-">>, <<"get_conversation", "abc", "-">>,
     <<"add_message", "abc", "hi">>} \cup ClientShapes

ReceiveAny == Arrive(MixedShapes, MaxMixedRequests)

\* the event loop can start a handler: no handler is in the middle of its body
\* (a blocking upstream call keeps the loop until the handler ends)
LoopFreeAlways == TRUE

LoopFree == waiting = {}

\* a handler runs from start to end and answers
Finish(req, reply) ==
    /\ inflight' = inflight \ {req}
    /\ last' = reply
    /\ UNCHANGED <<nextRid, waiting>>

-----------------------------------------------------------------------------
\* Conversation endpoints

start_conversation_overwriting(req) ==
    /\ conversations' = [c \in DOMAIN conversations \cup {req.conv_id} |->
                            IF c = req.conv_id THEN Conversation(req.conv_id, <<>>)
                            ELSE conversations[c]]
    /\ origin' = [c \in DOMAIN origin \cup {req.conv_id} |->
                     IF c = req.conv_id THEN <<>> ELSE origin[c]]
    /\ Finish(req, ReplyOf(req, 201,
           Return(JStr("Conversation '" \o req.conv_id \o "' started")), <<>>))

start_conversation_idempotent(req) ==
    IF req.conv_id \in DOMAIN conversations
    THEN /\ UNCHANGED <<conversations, origin>>
         /\ Finish(req, ReplyOf(req, 201,
                Return(JStr("Conversation '" \o req.conv_id \o "' started")), <<>>))
    ELSE /\ conversations' = conversations @@ (req.conv_id :> Conversation(req.conv_id, <<>>))
         /\ origin' = origin @@ (req.conv_id :> <<>>)
         /\ Finish(req, ReplyOf(req, 201,
                Return(JStr("Conversation '" \o req.conv_id \o "' started")), <<>>))

start_conversation_resetting(req) ==
    /\ conversations' = [c \in DOMAIN conversations \cup {req.conv_id} |->
                            IF c = req.conv_id THEN Conversation(req.conv_id, <<>>)
                            ELSE conversations[c]]
    /\ origin' = [c \in DOMAIN origin \cup {req.conv_id} |->
                     IF c = req.conv_id THEN <<>> ELSE origin[c]]
    /\ IF req.conv_id \in DOMAIN conversations
       THEN Finish(req, ReplyOf(req, 201,
                HTTPException(400, "Conversation ID already exists"), <<>>))
       ELSE Finish(req, ReplyOf(req, 201,
                Return(JStr("Conversation '" \o req.conv_id \o "' started")), <<>>))

start_conversation_effect(req) ==
    IF req.conv_id \in DOMAIN conversations
    THEN /\ UNCHANGED <<conversations, origin>>
         /\ Finish(req, ReplyOf(req, 201,
                HTTPException(400, "Conversation ID already exists"), <<>>))
    ELSE /\ conversations' = conversations @@ (req.conv_id :> Conversation(req.conv_id, <<>>))
         /\ origin' = origin @@ (req.conv_id :> <<>>)
         /\ Finish(req, ReplyOf(req, 201,
                Return(JStr("Conversation '" \o req.conv_id \o "' started")), <<>>))

start_conversation ==
    \E req \in inflight :
        /\ LoopFree
        /\ req.op = "start_conversation"
        /\ start_conversation_effect(req)
        /\ UNCHANGED files

PrependMessage(store, conv_id, message) ==
    [store EXCEPT ![conv_id].messages = <<message>> \o @]

AppendToEvery(store, conv_id, message) ==
    [c \in DOMAIN store |-> [store[c] EXCEPT !.messages = Append(@, message)]]

\* conversation.messages.append(message)
AppendMessage(store, conv_id, message) ==
    [store EXCEPT ![conv_id].messages = Append(@, message)]

\* line 231
RecordPromptAsAssistant(store, conv_id, prompt) ==
    AppendMessage(store, conv_id, Message("assistant", prompt))

RecordPrompt(store, conv_id, prompt) ==
    AppendMessage(store, conv_id, Message("user", prompt))

\* line 234
RecordReply(store, conv_id, generated_text) ==
    AppendMessage(store, conv_id, Message("assistant", generated_text))

add_message_begin_calling_first ==
    \E req \in inflight, answer \in Answers :
        /\ LoopFree
        /\ req.op = "add_message"
        /\ UNCHANGED files
        /\ IF req.conv_id \notin DOMAIN conversations
           THEN /\ UNCHANGED <<conversations, origin>>
                /\ Finish(req, ReplyOf(req, 200,
                       HTTPException(404, "Conversation not found"),
                       call_ollama_generate(answer).calls))
           ELSE /\ conversations' = RecordPrompt(conversations, req.conv_id, req.prompt)
                /\ origin' = [origin EXCEPT ![req.conv_id] = Append(@, req.rid)]
                /\ inflight' = inflight \ {req}
                /\ waiting' = waiting \cup {req}
                /\ UNCHANGED <<nextRid, last>>

\* lines 227-231: the existence check and the user entry, up to the upstream call
add_message_begin ==
    \E req \in inflight :
        /\ LoopFree
        /\ req.op = "add_message"
        /\ UNCHANGED files
        /\ IF req.conv_id \notin DOMAIN conversations
           THEN /\ UNCHANGED <<conversations, origin>>
                /\ Finish(req, ReplyOf(req, 200,
                       HTTPException(404, "Conversation not found"), <<>>))
           ELSE /\ conversations' = RecordPrompt(conversations, req.conv_id, req.prompt)
                /\ origin' = [origin EXCEPT ![req.conv_id] = Append(@, req.rid)]
                /\ inflight' = inflight \ {req}
                /\ waiting' = waiting \cup {req}
                /\ UNCHANGED <<nextRid, last>>

\* lines 233-237: the upstream call answers; the reply is recorded and returned
add_message_end_from(answers) ==
    \E req \in waiting, answer \in answers :
        LET ended == call_ollama_generate(answer)
            generated_text == ended.result.value
        IN  /\ waiting' = waiting \ {req}
            /\ UNCHANGED <<nextRid, inflight, files>>
            /\ IF ended.result.kind # "return"
               THEN /\ UNCHANGED <<conversations, origin>>
                    /\ last' = ReplyOf(req, 200, ended.result, ended.calls)
               ELSE IF generated_text.t # "str"
               THEN /\ UNCHANGED <<conversations, origin>>
                    /\ last' = ReplyOf(req, 200, Uncaught("ValidationError"), ended.calls)
               ELSE /\ conversations' = RecordReply(conversations, req.conv_id, generated_text.s)
                    /\ origin' = [origin EXCEPT ![req.conv_id] = Append(@, req.rid)]
                    /\ last' = ReplyOf(req, 200, Return(generated_text), ended.calls)

add_message_end == add_message_end_from(Answers)

get_conversation_creating(req) ==
    LET store == IF req.conv_id \in DOMAIN conversations THEN conversations
                 ELSE conversations @@ (req.conv_id :> Conversation(req.conv_id, <<>>))
    IN  /\ conversations' = store
        /\ origin' = IF req.conv_id \in DOMAIN origin THEN origin
                      ELSE origin @@ (req.conv_id :> <<>>)
        /\ Finish(req, Reply(req, 200, "return", JStr(store[req.conv_id].id), "",
                             store[req.conv_id].messages, <<>>))

get_conversation_effect(req) ==
    /\ UNCHANGED <<conversations, origin>>
    /\ IF req.conv_id \notin DOMAIN conversations
       THEN Finish(req, ReplyOf(req, 200, HTTPException(404, "Conversation not found"), <<>>))
       ELSE Finish(req, Reply(req, 200, "return", JStr(conversations[req.conv_id].id), "",
                              conversations[req.conv_id].messages, <<>>))

get_conversation ==
    \E req \in inflight :
        /\ LoopFree
        /\ req.op = "get_conversation"
        /\ get_conversation_effect(req)
        /\ UNCHANGED files

-----------------------------------------------------------------------------
\* Generation and model endpoints

generate_text_recording(answers) ==
    \E req \in inflight, answer \in answers :
        /\ LoopFree
        /\ req.op = "generate_text"
        /\ LET ended == call_ollama_generate(answer)
           IN  Finish(req, ReplyOf(req, 200, ended.result, ended.calls))
        /\ conversations' = [c \in DOMAIN conversations |->
              [conversations[c] EXCEPT !.messages = Append(@, Message("user", req.prompt))]]
        /\ origin' = [c \in DOMAIN origin |-> Append(origin[c], req.rid)]
        /\ UNCHANGED files

generate_text_from(answers) ==
    \E req \in inflight, answer \in answers :
        /\ LoopFree
        /\ req.op = "generate_text"
        /\ LET ended == call_ollama_generate(answer)
           IN  Finish(req, ReplyOf(req, 200, ended.result, ended.calls))
        /\ UNCHANGED <<conversations, origin, files>>

generate_text == generate_text_from(Answers)

\* temp_filename: uuid4 gives every request a name of its own
TempName(req) == "temp_" \o ToString(req.rid)

\* writing the upload: done, open() failed (no file), or the copy failed (a file is there)
WriteOutcomes == {"written", "open_failed", "copy_failed"}

\* the model runner answers a first call only when the helper makes one
FirstAnswers(answers, written, readOk) ==
    IF written = "written" /\ readOk THEN answers ELSE {NoAnswer}

\* the model runner answers a second call only when the helper makes one
SecondAnswers(answers, written, readOk, first) ==
    IF written = "written" /\ readOk /\ first.exc = "none" /\ NeedsFallback(first)
    THEN answers ELSE {NoAnswer}

\* the finally block: the file is removed if it exists, unless os.remove fails
CleanupSkipped(present, name, removeOk) == present

AfterCleanup(present, name, removeOk) ==
    IF name \in present /\ ~removeOk THEN present ELSE present \ {name}

\* lines 180-181: a failed os.remove is caught and logged
CleanupLog(present, name, removeOk) ==
    IF name \in present /\ ~removeOk
    THEN <<"Failed to delete temp file '" \o name \o "'">>
    ELSE <<>>

generate_multimodal_from(answers) ==
    \E req \in inflight, written \in WriteOutcomes, readOk \in BOOLEAN, removeOk \in BOOLEAN :
      \E first \in FirstAnswers(answers, written, readOk) :
        \E second \in SecondAnswers(answers, written, readOk, first) :
          /\ LoopFree
          /\ req.op = "generate_multimodal"
          /\ LET created == IF written = "open_failed" THEN files
                            ELSE files \cup {TempName(req)}
                 ended == IF written = "written"
                          THEN call_ollama_multimodal(readOk, first, second)
                          ELSE Ended(Uncaught("OSError"), <<>>)
             IN  /\ files' = AfterCleanup(created, TempName(req), removeOk)
                 /\ Finish(req, [ReplyOf(req, 200, ended.result, ended.calls) EXCEPT
                                    !.log = CleanupLog(created, TempName(req), removeOk)])
          /\ UNCHANGED <<conversations, origin>>

generate_multimodal == generate_multimodal_from(Answers)

list_models_result(answer) ==
    LET calls == <<Call(TagsUrl, answer)>>
        data == answer.body.json
        failed(e) == HTTPException(500, "Error fetching models: " \o ErrText(e))
    IN  IF answer.exc # "none" THEN Ended(failed(TransportError(answer)), calls)
        ELSE IF raise_for_status(answer) THEN Ended(failed(HTTPError(answer, TagsUrl)), calls)
        ELSE IF data = NotJson THEN Ended(failed(JSONDecodeError), calls)
        ELSE IF data.t # "obj" THEN Ended(Uncaught("AttributeError"), calls)
        ELSE IF "models" \in DOMAIN data.f
             THEN Ended(Return(data.f["models"]), calls)
             ELSE Ended(Return(JList(<<>>)), calls)

list_models_from(answers) ==
    \E req \in inflight, answer \in answers :
        /\ LoopFree
        /\ req.op = "list_models"
        /\ LET ended == list_models_result(answer)
           IN  Finish(req, ReplyOf(req, 200, ended.result, ended.calls))
        /\ UNCHANGED <<conversations, origin, files>>

list_models == list_models_from(Answers)

download_model_retrying(answer) ==
    LET failed(e) == HTTPException(500, "Error downloading model: " \o ErrText(e))
    IN  IF answer.exc # "none"
        THEN Ended(failed(TransportError(answer)),
                   <<Call(PullUrl, answer), Call(PullUrl, answer)>>)
        ELSE IF raise_for_status(answer)
        THEN Ended(failed(HTTPError(answer, PullUrl)),
                   <<Call(PullUrl, answer), Call(PullUrl, answer)>>)
        ELSE Ended(Return(JStr("Model 'llama3' downloaded successfully")),
                   <<Call(PullUrl, answer)>>)

download_model_result(answer) ==
    LET calls == <<Call(PullUrl, answer)>>
        failed(e) == HTTPException(500, "Error downloading model: " \o ErrText(e))
    IN  IF answer.exc # "none" THEN Ended(failed(TransportError(answer)), calls)
        ELSE IF raise_for_status(answer) THEN Ended(failed(HTTPError(answer, PullUrl)), calls)
        ELSE Ended(Return(JStr("Model 'llama3' downloaded successfully")), calls)

download_model_from(answers) ==
    \E req \in inflight, answer \in answers :
        /\ LoopFree
        /\ req.op = "download_model"
        /\ LET ended == download_model_result(answer)
           IN  Finish(req, ReplyOf(req, 200, ended.result, ended.calls))
        /\ UNCHANGED <<conversations, origin, files>>

download_model == download_model_from(Answers)

\* the conversation endpoints
NextStore ==
    \/ ReceiveStore
    \/ start_conversation
    \/ add_message_begin
    \/ add_message_end
    \/ get_conversation

SpecStore == Init /\ [][NextStore]_vars

\* the generation and model endpoints
NextClient ==
    \/ ReceiveClient
    \/ generate_text
    \/ generate_multimodal
    \/ list_models
    \/ download_model

SpecClient == Init /\ [][NextClient]_vars

\* every endpoint
Next ==
    \/ ReceiveAny
    \/ start_conversation
    \/ add_message_begin
    \/ add_message_end_from(MixedAnswers)
    \/ get_conversation
    \/ generate_text_from(MixedAnswers)
    \/ generate_multimodal_from(MixedAnswers)
    \/ list_models_from(MixedAnswers)
    \/ download_model_from(MixedAnswers)

Spec == Init /\ [][Next]_vars

-----------------------------------------------------------------------------
\* Vocabulary of the properties

IsPrefix(s, t) == Len(s) <= Len(t) /\ \A i \in 1..Len(s) : s[i] = t[i]

\* the requests whose handler starts in this step
Started == inflight \ inflight'

\* the requests whose handler ends in this step, answering last'
Ended_(req) ==
    /\ last'.req = req
    /\ \/ req \in inflight /\ req \notin inflight' /\ req \notin waiting'
       \/ req \in waiting /\ req \notin waiting'

\* the model runner answered 200 with a JSON object whose "response" is a text
ReturnsText(answer) ==
    /\ answer.exc = "none"
    /\ answer.status_code = 200
    /\ answer.body.json.t = "obj"
    /\ "response" \in DOMAIN answer.body.json.f
    /\ answer.body.json.f["response"].t = "str"

TextOf(answer) == answer.body.json.f["response"].s

-----------------------------------------------------------------------------
\* C1: an add_message on an existing conversation with history H whose
\* upstream call returns the text r answers generated_text = r and leaves the
\* history H, (user, p), (assistant, r); get_conversation returns the stored
\* sequence; and in every state each assistant entry directly follows the user
\* entry of the same request.
C1_UserFirst ==
    \A req \in Started :
        (req.op = "add_message" /\ req.conv_id \in DOMAIN conversations) =>
            /\ req \in waiting'
            /\ conversations'[req.conv_id].messages =
                   Append(conversations[req.conv_id].messages, Message("user", req.prompt))

C1_ThenAssistant ==
    \A req \in waiting :
        (Ended_(req) /\ Len(last'.calls) = 1 /\ ReturnsText(last'.calls[1].answer)) =>
            LET H1 == conversations[req.conv_id].messages
                r == TextOf(last'.calls[1].answer)
            IN  /\ H1 # <<>>
                /\ H1[Len(H1)] = Message("user", req.prompt)
                /\ origin[req.conv_id][Len(H1)] = req.rid
                /\ last'.status_code = 200
                /\ last'.value = JStr(r)
                /\ conversations'[req.conv_id].messages = Append(H1, Message("assistant", r))

C1_GetReturnsHistory ==
    \A req \in inflight :
        (Ended_(req) /\ req.op = "get_conversation" /\ req.conv_id \in DOMAIN conversations) =>
            /\ last'.status_code = 200
            /\ last'.value = JStr(req.conv_id)
            /\ last'.messages = conversations[req.conv_id].messages
            /\ last'.messages = conversations'[req.conv_id].messages

C1_AssistantFollowsItsUser ==
    \A c \in DOMAIN conversations :
        \A i \in 1..Len(conversations[c].messages) :
            conversations[c].messages[i].role = "assistant" =>
                /\ i > 1
                /\ conversations[c].messages[i - 1].role = "user"
                /\ origin[c][i - 1] = origin[c][i]

C1_ExchangeInOrder ==
    [][C1_UserFirst /\ C1_ThenAssistant /\ C1_GetReturnsHistory
       /\ C1_AssistantFollowsItsUser']_vars

\* a second exchange has been recorded after a first one, and answered
C1_Witness ==
    /\ last.req.op = "add_message"
    /\ last.status_code = 200
    /\ last.req.conv_id \in DOMAIN conversations
    /\ Len(conversations[last.req.conv_id].messages) = 4
    /\ conversations[last.req.conv_id].messages[4].role = "assistant"

-----------------------------------------------------------------------------
\* C2: with add_message requests on one conversation in flight together, the
\* entries one request appends are adjacent, the user entry first: no entry of
\* another request stands between them.
C2_ExchangeAdjacent ==
    \A c \in DOMAIN conversations :
        \A i, j \in 1..Len(conversations[c].messages) :
            (i < j /\ origin[c][i] = origin[c][j]) =>
                /\ j = i + 1
                /\ conversations[c].messages[i].role = "user"
                /\ conversations[c].messages[j].role = "assistant"

\* request 3 arrived while request 2 was in flight and was handled first
C2_Witness ==
    \E c \in DOMAIN conversations : origin[c] = <<3, 3, 2, 2>>

-----------------------------------------------------------------------------
\* C3: start_conversation with an id that is no key answers 201 and stores an
\* empty conversation under it; with an id that is a key it answers 400
\* "Conversation ID already exists".
C3_StartStep ==
    \A req \in inflight :
        (Ended_(req) /\ req.op = "start_conversation") =>
            IF req.conv_id \notin DOMAIN conversations
            THEN /\ last'.status_code = 201
                 /\ req.conv_id \in DOMAIN conversations'
                 /\ conversations'[req.conv_id].messages = <<>>
            ELSE /\ last'.status_code = 400
                 /\ last'.detail = "Conversation ID already exists"

C3_StartFreshOrExists == [][C3_StartStep]_vars

\* a second start on an id that already holds messages has been refused
C3_Witness ==
    /\ last.req.op = "start_conversation"
    /\ last.status_code = 400
    /\ conversations[last.req.conv_id].messages # <<>>

-----------------------------------------------------------------------------
\* C4: get_conversation and add_message on an id that is no key answer 404,
\* and no step of either handler adds a key to the store.
C4_AbsentStep ==
    /\ \A req \in inflight :
          (req \notin inflight' /\ req.op \in {"get_conversation", "add_message"}) =>
              /\ DOMAIN conversations' = DOMAIN conversations
              /\ req.conv_id \notin DOMAIN conversations =>
                    /\ Ended_(req)
                    /\ last'.status_code = 404
                    /\ last'.detail = "Conversation not found"
                    /\ conversations' = conversations
    /\ \A req \in waiting :
          req \notin waiting' => DOMAIN conversations' = DOMAIN conversations

C4_AbsentIsNotFound == [][C4_AbsentStep]_vars

\* an add_message on an absent id has been refused while another id exists
C4_Witness ==
    /\ last.req.op = "add_message"
    /\ last.status_code = 404
    /\ last.req.conv_id \notin DOMAIN conversations
    /\ DOMAIN conversations # {}

-----------------------------------------------------------------------------
\* C5: in every step every conversation stays in the store and its message
\* sequence before the step is a prefix of the one after it.
C5_PrefixStep ==
    \A c \in DOMAIN conversations :
        /\ c \in DOMAIN conversations'
        /\ IsPrefix(conversations[c].messages, conversations'[c].messages)

C5_AppendOnly == [][C5_PrefixStep]_vars

\* a history that grew over a failed and a successful exchange
C5_Witness ==
    \E c \in DOMAIN conversations :
        /\ Len(conversations[c].messages) = 3
        /\ conversations[c].messages[2].role = "user"
        /\ last.req.op = "add_message"
        /\ last.status_code = 200

-----------------------------------------------------------------------------
\* C6: every stored conversation's id is the key it is stored under, so two
\* keys never hold the same id, and a step never changes a stored id.
C6_IdStep ==
    /\ \A k \in DOMAIN conversations' : conversations'[k].id = k
    /\ \A k \in DOMAIN conversations :
          k \in DOMAIN conversations' => conversations'[k].id = conversations[k].id
    /\ \A k1, k2 \in DOMAIN conversations' :
          conversations'[k1].id = conversations'[k2].id => k1 = k2

C6_IdIsKey == [][C6_IdStep]_vars

\* two conversations are stored, one of them with messages
C6_Witness ==
    /\ DOMAIN conversations = ConvIds
    /\ \E k \in DOMAIN conversations : conversations[k].messages # <<>>

-----------------------------------------------------------------------------
\* Vocabulary of the properties on the model runner client

\* the first upstream call of the request answered as `r` got HTTP 400
PrimaryIs400(r) ==
    /\ Len(r.calls) >= 1
    /\ r.calls[1].answer.exc = "none"
    /\ r.calls[1].answer.status_code = 400

\* no response at all, or a status the HTTP client reports as an error
UpstreamFailed(answer) ==
    answer.exc # "none" \/ answer.status_code \in 400..599

FinalAnswer(r) == r.calls[Len(r.calls)].answer

HasField(j, k) == j.t = "obj" /\ k \in DOMAIN j.f

-----------------------------------------------------------------------------
\* C7: when the generate-shaped call of a multimodal request answers 400, the
\* chat endpoint is called exactly once, after it, and the request's outcome
\* is the one the chat answer gives: an error for a failed chat call, the
\* chat answer's text for a successful one.
C7_FallbackOnceAndDecides ==
    (last.req.op = "generate_multimodal" /\ PrimaryIs400(last)) =>
        /\ Len(last.calls) = 2
        /\ last.calls[1].url = GenerateUrl
        /\ last.calls[2].url = ChatUrl
        /\ LET second == last.calls[2].answer
           IN  /\ UpstreamFailed(second) =>
                     (last.status_code = 500 /\ last.kind = "HTTPException")
               /\ ReturnsText(second) =>
                     (last.status_code = 200 /\ last.value = JStr(TextOf(second)))
               /\ second = Response(200, BodyMessage) =>
                     (last.status_code = 200 /\ last.value = JStr("hey"))

\* a 400 on the generate call, answered by the chat call's message content
C7_Witness ==
    /\ last.req.op = "generate_multimodal"
    /\ PrimaryIs400(last)
    /\ Len(last.calls) = 2
    /\ last.calls[2].answer = Response(200, BodyMessage)
    /\ last.status_code = 200

-----------------------------------------------------------------------------
\* C8: when the generate-shaped call of a multimodal request ends in anything
\* but HTTP 400, the chat endpoint is not called; a transport failure or an
\* error status (4xx, 5xx) of that call is answered with 500.
C8_NoFallbackOtherwise ==
    (last.req.op = "generate_multimodal" /\ ~PrimaryIs400(last)) =>
        /\ Len(last.calls) <= 1
        /\ \A i \in 1..Len(last.calls) : last.calls[i].url = GenerateUrl
        /\ (Len(last.calls) = 1 /\ UpstreamFailed(last.calls[1].answer)) =>
              /\ last.status_code = 500
              /\ last.kind = "HTTPException"
              /\ last.value = NoValue

\* a 404 on the generate call went straight back as a 500
C8_Witness ==
    /\ last.req.op = "generate_multimodal"
    /\ Len(last.calls) = 1
    /\ last.calls[1].answer.exc = "none"
    /\ last.calls[1].answer.status_code = 404
    /\ last.status_code = 500

-----------------------------------------------------------------------------
\* C9: for every successful JSON body of the last upstream call of a
\* multimodal request the answer is 200 with: the "response" field if there
\* is one, else "message"."content" if there is one, else the whole body
\* stringified; never an error.
C9_Expected(j) ==
    IF HasField(j, "response") THEN j.f["response"]
    ELSE IF HasField(j, "message") /\ HasField(j.f["message"], "content")
         THEN j.f["message"].f["content"]
    ELSE JStr(PyRepr(j))

C9_ExtractionNeverFails ==
    (/\ last.req.op = "generate_multimodal"
     /\ Len(last.calls) >= 1
     /\ FinalAnswer(last).exc = "none"
     /\ FinalAnswer(last).status_code = 200
     /\ FinalAnswer(last).body.json # NotJson) =>
        /\ last.kind = "return"
        /\ last.status_code = 200
        /\ last.value = C9_Expected(FinalAnswer(last).body.json)

-----------------------------------------------------------------------------
\* C10: when the last upstream call of a generateText, generateMultimodal,
\* listModels or pullModel request answers with an error status, the 500
\* sent to the caller carries the upstream response body verbatim.
ErrorPrefix(op) ==
    CASE op = "list_models"    -> "Error fetching models: "
      [] op = "download_model" -> "Error downloading model: "
      [] OTHER                 -> "Error communicating with Ollama: "

C10_UpstreamBodyVerbatim ==
    (/\ last.req.op \in {"generate_text", "generate_multimodal", "list_models", "download_model"}
     /\ Len(last.calls) >= 1
     /\ FinalAnswer(last).exc = "none"
     /\ FinalAnswer(last).status_code \in 400..599) =>
        /\ last.status_code = 500
        /\ last.detail = ErrorPrefix(last.req.op) \o FinalAnswer(last).body.text

-----------------------------------------------------------------------------
\* C11: a request one of whose upstream calls ended in a timeout or another
\* transport failure (no response) is answered with 500 and an error detail,
\* never with a success; this for generate_text, generate_multimodal (either
\* call), list_models, download_model and add_message.
TransportFailed(r) ==
    \E i \in 1..Len(r.calls) : r.calls[i].answer.exc # "none"

C11_TransportFailureIs500 ==
    TransportFailed(last) =>
        /\ last.status_code = 500
        /\ last.kind = "HTTPException"
        /\ last.value = NoValue
        /\ last.detail # ""

\* an add_message whose upstream call timed out was answered with 500
C11_Witness ==
    /\ last.req.op = "add_message"
    /\ Len(last.calls) = 1
    /\ last.calls[1].answer = Failure("Timeout")
    /\ last.status_code = 500

-----------------------------------------------------------------------------
\* C12 as stated: once a generate_multimodal request has been answered, its
\* temp file is not in storage.
C12_TempFileAlwaysGone ==
    last.req.op = "generate_multimodal" => TempName(last.req) \notin files

\* C12, amended: when a generate_multimodal request ends, whatever its
\* outcome, its temp file is not in storage unless the os.remove of the
\* cleanup itself failed, which the handler logs; the temp files of other
\* requests are neither removed nor added by it.
C12_CleanupStep ==
    \A req \in inflight :
        (Ended_(req) /\ req.op = "generate_multimodal") =>
            /\ files' \ {TempName(req)} = files
            /\ TempName(req) \in files' <=>
                  last'.log = <<"Failed to delete temp file '" \o TempName(req) \o "'">>
            /\ TempName(req) \notin files' => last'.log = <<>>

C12_TempFileGoneUnlessRemoveFails == [][C12_CleanupStep]_vars

\* a request whose fallback call failed too left no temp file, while the
\* file of an earlier request whose removal failed is still there
C12_Witness ==
    /\ last.req.op = "generate_multimodal"
    /\ Len(last.calls) = 2
    /\ last.status_code = 500
    /\ last.log = <<>>
    /\ TempName(last.req) \notin files
    /\ files # {}

-----------------------------------------------------------------------------
\* C13: a request makes at most one upstream call, to its own endpoint; a
\* generate_multimodal request makes at most two, the first to the generate
\* endpoint and the second, if any, to the chat endpoint; the conversation
\* endpoints other than add_message make none.
UrlOf(op) ==
    CASE op = "list_models"    -> TagsUrl
      [] op = "download_model" -> PullUrl
      [] OTHER                 -> GenerateUrl

C13_NoRetry ==
    /\ last.req.op \in {"generate_text", "list_models", "download_model", "add_message"} =>
          /\ Len(last.calls) <= 1
          /\ \A i \in 1..Len(last.calls) : last.calls[i].url = UrlOf(last.req.op)
    /\ last.req.op = "generate_multimodal" =>
          /\ Len(last.calls) <= 2
          /\ Len(last.calls) >= 1 => last.calls[1].url = GenerateUrl
          /\ Len(last.calls) = 2 => last.calls[2].url = ChatUrl
    /\ last.req.op \in {"start_conversation", "get_conversation"} => last.calls = <<>>

\* both calls of a multimodal request failed and nothing was tried again
C13_Witness ==
    /\ last.req.op = "generate_multimodal"
    /\ Len(last.calls) = 2
    /\ last.calls[2].answer = Failure("Timeout")
    /\ last.status_code = 500

-----------------------------------------------------------------------------
\* C14: a step in which a generate_text, generate_multimodal, list_models,
\* download_model or get_conversation request is handled leaves the store as
\* it was: the same ids, each with the same message sequence.
C14_StoreUntouchedStep ==
    \A req \in inflight :
        (/\ req \notin inflight'
         /\ req.op \in {"generate_text", "generate_multimodal", "list_models",
                        "download_model", "get_conversation"}) =>
            /\ Ended_(req)
            /\ DOMAIN conversations' = DOMAIN conversations
            /\ \A c \in DOMAIN conversations :
                  conversations'[c].messages = conversations[c].messages
            /\ conversations' = conversations

C14_ClientLeavesStore == [][C14_StoreUntouchedStep]_vars

\* a generate_text was answered while the store held a recorded exchange
C14_Witness ==
    /\ last.req.op = "generate_text"
    /\ last.status_code = 200
    /\ "abc" \in DOMAIN conversations
    /\ Len(conversations["abc"].messages) = 2

-----------------------------------------------------------------------------
\* C15: when the upstream call of an add_message fails (transport failure or
\* error status), the request is answered with 500 and the history keeps the
\* (user, prompt) entry the handler appended before the call, as its last
\* entry and without an assistant entry; the entry is never removed, and the
\* next add_message appends after it.
C15_FailedStep ==
    \A req \in waiting :
        (Ended_(req) /\ Len(last'.calls) = 1 /\ UpstreamFailed(last'.calls[1].answer)) =>
            LET H1 == conversations[req.conv_id].messages
                n == Len(H1)
            IN  /\ last'.status_code = 500
                /\ last'.kind = "HTTPException"
                /\ conversations' = conversations
                /\ n >= 1
                /\ H1[n] = Message("user", req.prompt)
                /\ origin[req.conv_id][n] = req.rid
                /\ n > 1 => origin[req.conv_id][n - 1] # req.rid

\* a user entry whose request is over and that no assistant entry follows
Dangling(c, i) ==
    /\ conversations[c].messages[i].role = "user"
    /\ \A req \in waiting : req.rid # origin[c][i]
    /\ i < Len(conversations[c].messages) => origin[c][i + 1] # origin[c][i]

C15_DanglingStays ==
    \A c \in DOMAIN conversations :
        \A i \in 1..Len(conversations[c].messages) :
            Dangling(c, i) =>
                /\ Len(conversations'[c].messages) >= i
                /\ conversations'[c].messages[i] = conversations[c].messages[i]
                /\ \A req \in Started :
                      (req.op = "add_message" /\ req.conv_id = c) =>
                          conversations'[c].messages =
                              Append(conversations[c].messages, Message("user", req.prompt))

C15_FailureLeavesUserEntry == [][C15_FailedStep /\ C15_DanglingStays]_vars

\* request 2 failed after its user entry; request 3 was recorded after it
C15_Witness ==
    \E c \in DOMAIN conversations :
        /\ origin[c] = <<2, 3, 3>>
        /\ last.req.rid = 3
        /\ last.status_code = 200

-----------------------------------------------------------------------------
\* C16: with several start_conversation requests for one id in flight
\* together, a request is answered 201 only if the id was no key when its
\* handler ran, and then it is one afterwards; a request whose id is a key is
\* answered 400 and the stored conversation, with its messages, stays as it
\* is. Keys never leave the store, so exactly one of the requests succeeds.
C16_StartStep ==
    /\ \A req \in inflight :
          (Ended_(req) /\ req.op = "start_conversation") =>
              /\ last'.status_code = 201 <=> req.conv_id \notin DOMAIN conversations
              /\ last'.status_code \in {201, 400}
              /\ req.conv_id \in DOMAIN conversations'
              /\ req.conv_id \in DOMAIN conversations =>
                    conversations'[req.conv_id] = conversations[req.conv_id]
    /\ DOMAIN conversations \subseteq DOMAIN conversations'

C16_OneStartWins == [][C16_StartStep]_vars

\* the start received first was refused: a start for the same id received
\* later ran before it, and the messages recorded since are still there
C16_Witness ==
    /\ last.req.op = "start_conversation"
    /\ last.req.rid = 1
    /\ last.status_code = 400
    /\ conversations[last.req.conv_id].messages # <<>>

-----------------------------------------------------------------------------
\* C17: a request answered 400 (start_conversation on a key) or 404
\* (add_message, get_conversation on an id that is no key) leaves the whole
\* store as it was.
C17_RejectedStep ==
    \A req \in inflight \cup waiting :
        (Ended_(req) /\ last'.status_code \in {400, 404}) =>
            /\ conversations' = conversations
            /\ origin' = origin

C17_RejectedLeavesStore == [][C17_RejectedStep]_vars

\* an add_message on an absent id was refused while another conversation
\* held a recorded exchange
C17_Witness ==
    /\ last.req.op = "add_message"
    /\ last.status_code = 404
    /\ \E c \in DOMAIN conversations : Len(conversations[c].messages) = 2

-----------------------------------------------------------------------------
\* C18: add_message on an id that is no key is answered 404 with no upstream
\* call made; on a key, the user entry is in the history when the upstream
\* call is issued, the call is the only one, and the history changes after
\* it only by the assistant entry of a call that returned.
C18_CheckThenCall ==
    \A req \in Started :
        req.op = "add_message" =>
            IF req.conv_id \notin DOMAIN conversations
            THEN /\ Ended_(req)
                 /\ last'.status_code = 404
                 /\ last'.calls = <<>>
            ELSE /\ req \in waiting'
                 /\ last' = last
                 /\ LET H1 == conversations'[req.conv_id].messages
                    IN  /\ H1 # <<>>
                        /\ H1[Len(H1)] = Message("user", req.prompt)
                        /\ origin'[req.conv_id][Len(H1)] = req.rid

C18_AssistantAfterReturn ==
    \A req \in waiting :
        Ended_(req) =>
            /\ Len(last'.calls) = 1
            /\ last'.calls[1].url = GenerateUrl
            /\ conversations' # conversations =>
                  /\ last'.kind = "return"
                  /\ last'.status_code = 200
                  /\ ~UpstreamFailed(last'.calls[1].answer)
                  /\ last'.value.t = "str"
                  /\ conversations'[req.conv_id].messages =
                        Append(conversations[req.conv_id].messages,
                               Message("assistant", last'.value.s))

C18_ExistenceBeforeUpstream == [][C18_CheckThenCall /\ C18_AssistantAfterReturn]_vars

\* an add_message on an absent id was refused without a call, after an
\* exchange on another id had gone through the model runner
C18_Witness ==
    /\ last.req.op = "add_message"
    /\ last.status_code = 404
    /\ last.calls = <<>>
    /\ \E c \in DOMAIN conversations :
          /\ Len(conversations[c].messages) = 2
          /\ conversations[c].messages[2].role = "assistant"

-----------------------------------------------------------------------------
\* C19: a step of start_conversation(id) or add_message(id, ...) leaves every
\* other conversation of the store as it was and adds no key but id.
C19_IsolatedStep ==
    \A req \in inflight \cup waiting :
        (/\ req.op \in {"start_conversation", "add_message"}
         /\ \/ req \in inflight /\ req \notin inflight'
            \/ req \in waiting /\ req \notin waiting') =>
            /\ DOMAIN conversations' \subseteq DOMAIN conversations \cup {req.conv_id}
            /\ \A c \in DOMAIN conversations :
                  c # req.conv_id =>
                      /\ c \in DOMAIN conversations'
                      /\ conversations'[c] = conversations[c]

C19_OthersUntouched == [][C19_IsolatedStep]_vars

\* an add_message on one conversation is inside its upstream call, and a
\* start for another id, received after it, has already run
C19_Witness ==
    \E req \in waiting :
        /\ last.req.op = "start_conversation"
        /\ last.status_code = 201
        /\ last.req.conv_id # req.conv_id
        /\ last.req.rid > req.rid
        /\ conversations[last.req.conv_id].messages = <<>>
        /\ conversations[req.conv_id].messages # <<>>

====
